---- MODULE Spec2Model ----
(***************************************************************************)
(* A model of the Enigma emulation in src/enigma.ts: the permutation       *)
(* validator (Base.validate), the Reflector, PlugBoard and Rotor           *)
(* constructors, RotorState / RotorGroup stepping and chained encode, and  *)
(* Enigma.create / encode / encodeString.                                  *)
(*                                                                         *)
(* Representation.  A JavaScript string is a sequence of one-character     *)
(* strings.  A JavaScript array is a sequence; the source's index i is     *)
(* position i + 1 here.  The numbers the machine computes with are         *)
(* integers; the values handed to Base.validate are JavaScript values      *)
(* (JSValue below), so that non-finite and non-integral elements exist.    *)
(***************************************************************************)
EXTENDS Integers, Sequences, FiniteSets, TLC

\* ------------------------------------------------------------------------
\* Characters
\* ------------------------------------------------------------------------

UpperCaseLetters ==
  <<"A","B","C","D","E","F","G","H","I","J","K","L","M",
    "N","O","P","Q","R","S","T","U","V","W","X","Y","Z">>

LowerCaseLetters ==
  <<"a","b","c","d","e","f","g","h","i","j","k","l","m",
    "n","o","p","q","r","s","t","u","v","w","x","y","z">>

IndexIn(seq, c) == CHOOSE i \in DOMAIN seq : seq[i] = c

IsUpper(c) == \E i \in DOMAIN UpperCaseLetters : UpperCaseLetters[i] = c

IsLower(c) == \E i \in DOMAIN LowerCaseLetters : LowerCaseLetters[i] = c

\* /\s/ on the modelled character set: the space
IsWhitespace(c) == c = " "

\* /\w/ on the modelled character set: the letters
IsWordChar(c) == IsUpper(c) \/ IsLower(c)

\* String.prototype.charCodeAt for one character
charCodeAt(c) ==
  IF IsUpper(c) THEN 64 + IndexIn(UpperCaseLetters, c)
  ELSE IF IsLower(c) THEN 96 + IndexIn(LowerCaseLetters, c)
  ELSE 32

\* String.fromCharCode
fromCharCode(code) ==
  IF code \in 65..90 THEN UpperCaseLetters[code - 64]
  ELSE IF code \in 97..122 THEN LowerCaseLetters[code - 96]
  ELSE IF code = 32 THEN " "
  ELSE "?"

\* String.prototype.toUpperCase for one character
upperChar(c) == IF IsLower(c) THEN UpperCaseLetters[IndexIn(LowerCaseLetters, c)] ELSE c

\* String.prototype.toUpperCase
toUpperCase(s) == [i \in DOMAIN s |-> upperChar(s[i])]

\* s.replaceAll(/\s/g, "")
replaceAllWhitespace(s) == SelectSeq(s, LAMBDA c : ~IsWhitespace(c))

\* s.replace(/\s/, ""): only the first whitespace character is removed
replaceFirstWhitespace(s) ==
  LET ws == {i \in DOMAIN s : IsWhitespace(s[i])}
      first == CHOOSE i \in ws : \A j \in ws : i <= j
  IN  IF ws = {} THEN s
      ELSE SubSeq(s, 1, first - 1) \o SubSeq(s, first + 1, Len(s))

\* s.match(/\w\w/g): the non-overlapping pairs of word characters, left to
\* right; <<>> stands for the null of "no match"
RECURSIVE matchPairs(_)
matchPairs(s) ==
  IF Len(s) < 2 THEN <<>>
  ELSE IF IsWordChar(s[1]) /\ IsWordChar(s[2])
       THEN <<SubSeq(s, 1, 2)>> \o matchPairs(SubSeq(s, 3, Len(s)))
       ELSE matchPairs(Tail(s))

\* ------------------------------------------------------------------------
\* Base
\* ------------------------------------------------------------------------

ALPHA == 65

Basic == 0

Symmetric == 1

Reflective == 2

\* Base.mod, with JavaScript's truncating % on a possibly negative n
jsRem(n, k) == IF n >= 0 THEN n % k ELSE -((-n) % k)

mod(n) == jsRem(jsRem(n, 26) + 26, 26)

charToNumber(c) == charCodeAt(upperChar(c)) - ALPHA

stringToNumbers(s) ==
  LET t == replaceAllWhitespace(toUpperCase(s))
  IN  [i \in DOMAIN t |-> charToNumber(t[i])]

numbersToString(nn) == [i \in DOMAIN nn |-> fromCharCode(nn[i] + ALPHA)]

\* A JavaScript value as Base.validate sees it: kind "number" is a finite
\* number of value n2 / 2 (so n2 odd is a non-integral number); the other
\* kinds are NaN, Infinity, -Infinity and a string.
JSNumber(n) == [kind |-> "number", n2 |-> 2 * n]

JSHalf(n2) == [kind |-> "number", n2 |-> n2]

JSNaN == [kind |-> "NaN", n2 |-> 0]

JSInfinity == [kind |-> "Infinity", n2 |-> 0]

JSString == [kind |-> "string", n2 |-> 0]

toJS(m) == [i \in DOMAIN m |-> JSNumber(m[i])]

isFinite(v) == v.kind = "number"

\* m[val] for a JavaScript value used as an array index; <<>> is undefined
elementAt(m, v) ==
  IF v.kind = "number" /\ v.n2 % 2 = 0 /\ (v.n2 \div 2) + 1 \in DOMAIN m
  THEN <<m[(v.n2 \div 2) + 1]>>
  ELSE <<>>

assertLength(m) == IF Len(m) # 26 THEN "length" ELSE "none"

assertValue(m) ==
  LET bad == {i \in DOMAIN m : ~isFinite(m[i]) \/ m[i].n2 < 0 \/ m[i].n2 >= 52}
      first == CHOOSE i \in bad : \A j \in bad : i <= j
  IN  IF bad = {} THEN "none"
      ELSE IF ~isFinite(m[first]) THEN "finite"
      ELSE "range"

assertUnique(m) ==
  IF Cardinality({m[i] : i \in DOMAIN m}) # 26 THEN "unique" ELSE "none"

\* assertReflective comparing the value with the 1-based index
assertReflectiveOffByOne(m) ==
  IF \E i \in DOMAIN m : m[i] = JSNumber(i) THEN "reflective" ELSE "none"

assertReflective(m) ==
  IF \E i \in DOMAIN m : m[i] = JSNumber(i - 1) THEN "reflective" ELSE "none"

assertSymmetric(m) ==
  IF \E i \in DOMAIN m : elementAt(m, m[i]) # <<JSNumber(i - 1)>>
  THEN "symmetric" ELSE "none"

\* Base.validate without the symmetry assertion
validateNoSymmetric(m, vl) ==
  IF assertLength(m) # "none" THEN assertLength(m)
  ELSE IF assertValue(m) # "none" THEN assertValue(m)
  ELSE IF assertUnique(m) # "none" THEN assertUnique(m)
  ELSE IF vl = Reflective /\ assertReflective(m) # "none" THEN assertReflective(m)
  ELSE "none"

\* Base.validate: the name of the first assertion that throws, or "none"
validate(m, vl) ==
  IF assertLength(m) # "none" THEN assertLength(m)
  ELSE IF assertValue(m) # "none" THEN assertValue(m)
  ELSE IF assertUnique(m) # "none" THEN assertUnique(m)
  ELSE IF vl >= Symmetric /\ assertSymmetric(m) # "none" THEN assertSymmetric(m)
  ELSE IF vl = Reflective /\ assertReflective(m) # "none" THEN assertReflective(m)
  ELSE "none"

\* ------------------------------------------------------------------------
\* Reflector
\* ------------------------------------------------------------------------

\* A constructor that throws yields no object: err names the error and the
\* fields are empty.
Thrown(e) == [err |-> e, mapping |-> <<>>]

\* new Reflector(config) validating at the level of the plugboard
ReflectorSymmetricOnly(config) ==
  LET mapping == stringToNumbers(config)
      e == validate(toJS(mapping), Symmetric)
  IN  IF e # "none" THEN Thrown(e) ELSE [err |-> "none", mapping |-> mapping]

\* new Reflector(config)
Reflector(config) ==
  LET mapping == stringToNumbers(config)
      e == validate(toJS(mapping), Reflective)
  IN  IF e # "none" THEN Thrown(e) ELSE [err |-> "none", mapping |-> mapping]

ReflectorLabels == {"A", "B", "C"}

\* Reflector.create(label)
ReflectorCreate(label) ==
  CASE label = "A" ->
         Reflector(<<"E","J","M","Z","A","L","Y","X","V","B","W","F","C",
                     "R","Q","U","O","N","T","S","P","I","K","H","G","D">>)
    [] label = "B" ->
         Reflector(<<"Y","R","U","H","Q","S","L","D","P","X","N","G","O",
                     "K","M","I","E","B","F","Z","C","W","V","J","A","T">>)
    [] label = "C" ->
         Reflector(<<"F","V","P","J","I","A","O","Y","E","D","R","Z","X",
                     "W","G","C","T","K","U","Q","S","B","N","M","H","L">>)
    [] OTHER -> Thrown("reflector label")

\* Reflector.encode
ReflectorEncode(mapping, n) == mapping[n + 1]

\* ------------------------------------------------------------------------
\* PlugBoard
\* ------------------------------------------------------------------------

identityMapping == [i \in 1..26 |-> i - 1]

\* the forEach over the matched pairs without the second assignment
RECURSIVE applyPairsOneWay(_, _)
applyPairsOneWay(mapping, pairs) ==
  IF pairs = <<>> THEN mapping
  ELSE LET xN == charToNumber(Head(pairs)[1])
           yN == charToNumber(Head(pairs)[2])
       IN  applyPairsOneWay([mapping EXCEPT ![xN + 1] = yN], Tail(pairs))

\* the forEach over the matched pairs: mapping[xN] = yN; mapping[yN] = xN
RECURSIVE applyPairs(_, _)
applyPairs(mapping, pairs) ==
  IF pairs = <<>> THEN mapping
  ELSE LET xN == charToNumber(Head(pairs)[1])
           yN == charToNumber(Head(pairs)[2])
           m1 == [mapping EXCEPT ![xN + 1] = yN]
           m2 == [m1 EXCEPT ![yN + 1] = xN]
       IN  applyPairs(m2, Tail(pairs))

\* new PlugBoard(config)
PlugBoard(config) ==
  LET step1 == matchPairs(replaceFirstWhitespace(toUpperCase(config)))
      mapping == applyPairs(identityMapping, step1)
      e == validate(toJS(mapping), Symmetric)
  IN  IF e # "none" THEN Thrown(e) ELSE [err |-> "none", mapping |-> mapping]

\* PlugBoard.encode
PlugBoardEncode(mapping, n) == mapping[n + 1]

\* ------------------------------------------------------------------------
\* Rotor
\* ------------------------------------------------------------------------

Forward == 0

Reverse == 1

RotorThrown(e) ==
  [err |-> e, mapping |-> <<>>, reverseMapping |-> <<>>, notchesAt |-> <<>>]

\* the loop writing the value at the index instead of the index at the value
RECURSIVE invertIntoSameWay(_, _, _)
invertIntoSameWay(reverseMapping, mapping, k) ==
  IF k > Len(mapping) THEN reverseMapping
  ELSE invertIntoSameWay([reverseMapping EXCEPT ![k] = mapping[k]], mapping, k + 1)

\* mapping.forEach((value, index) => reverseMapping[value] = index)
RECURSIVE invertInto(_, _, _)
invertInto(reverseMapping, mapping, k) ==
  IF k > Len(mapping) THEN reverseMapping
  ELSE invertInto([reverseMapping EXCEPT ![mapping[k] + 1] = k - 1], mapping, k + 1)

\* new Rotor(config, notchesAt)
Rotor(config, notchesAt) ==
  LET notches == stringToNumbers(notchesAt)
      mapping == stringToNumbers(config)
      e1 == validate(toJS(mapping), Basic)
      reverseMapping == invertInto([i \in 1..26 |-> 0], mapping, 1)
      e2 == validate(toJS(reverseMapping), Basic)
  IN  IF e1 # "none" THEN RotorThrown(e1)
      ELSE IF e2 # "none" THEN RotorThrown(e2)
      ELSE [err |-> "none", mapping |-> mapping,
            reverseMapping |-> reverseMapping, notchesAt |-> notches]

RotorLabels == {"I", "II", "III", "IV", "V", "VI", "VII", "VIII"}

\* Rotor.create(label)
RotorCreate(label) ==
  CASE label = "I" ->
         Rotor(<<"E","K","M","F","L","G","D","Q","V","Z","N","T","O",
                 "W","Y","H","X","U","S","P","A","I","B","R","C","J">>, <<"Q">>)
    [] label = "II" ->
         Rotor(<<"A","J","D","K","S","I","R","U","X","B","L","H","W",
                 "T","M","C","Q","G","Z","N","P","Y","F","V","O","E">>, <<"E">>)
    [] label = "III" ->
         Rotor(<<"B","D","F","H","J","L","C","P","R","T","X","V","Z",
                 "N","Y","E","I","W","G","A","K","M","U","S","Q","O">>, <<"V">>)
    [] label = "IV" ->
         Rotor(<<"E","S","O","V","P","Z","J","A","Y","Q","U","I","R",
                 "H","X","L","N","F","T","G","K","D","C","M","W","B">>, <<"J">>)
    [] label = "V" ->
         Rotor(<<"V","Z","B","R","G","I","T","Y","U","P","S","D","N",
                 "H","L","X","A","W","M","J","Q","O","F","E","C","K">>, <<"Z">>)
    [] label = "VI" ->
         Rotor(<<"J","P","G","V","O","U","M","F","Y","Q","B","E","N",
                 "H","Z","R","D","K","A","S","X","L","I","C","T","W">>, <<"M","Z">>)
    [] label = "VII" ->
         Rotor(<<"N","Z","J","H","G","R","C","X","M","Y","S","W","B",
                 "O","U","F","A","I","V","L","P","E","K","Q","D","T">>, <<"M","Z">>)
    [] label = "VIII" ->
         Rotor(<<"F","K","Q","H","T","L","X","O","C","B","J","S","P",
                 "D","Z","R","A","M","E","W","N","I","U","Y","G","V">>, <<"M","Z">>)
    [] OTHER -> RotorThrown("rotor label")

\* Rotor.encode that looks up the forward wiring in both directions
RotorEncodeForwardOnly(rotor, n, direction) == rotor.mapping[n + 1]

\* Rotor.encode
RotorEncode(rotor, n, direction) ==
  IF direction = Reverse THEN rotor.reverseMapping[n + 1] ELSE rotor.mapping[n + 1]

\* ------------------------------------------------------------------------
\* RotorState
\* ------------------------------------------------------------------------

\* new RotorState(rotor, ringSetting, position)
RotorState(rotor, ringSetting, position) ==
  [rotor |-> rotor, ringSetting |-> ringSetting, position |-> position]

\* RotorState.encode that leaves the ring setting out
RotorStateEncodeNoRing(st, n, direction) ==
  LET p1 == mod(n + st.position)
      p2 == RotorEncode(st.rotor, p1, direction)
      p3 == mod(p2 - st.position)
  IN  p3

\* RotorState.encode
RotorStateEncode(st, n, direction) ==
  LET p1 == mod(n - st.ringSetting + st.position)
      p2 == RotorEncode(st.rotor, p1, direction)
      p3 == mod(p2 + st.ringSetting - st.position)
  IN  p3

\* RotorState.advance without the wrap at 26
RotorStateAdvanceNoWrap(st) == [st EXCEPT !.position = st.position + 1]

\* RotorState.advance
RotorStateAdvance(st) == [st EXCEPT !.position = (st.position + 1) % 26]

\* RotorState.atNotch
atNotch(st) == \E k \in DOMAIN st.rotor.notchesAt : st.rotor.notchesAt[k] = st.position

\* ------------------------------------------------------------------------
\* RotorGroup
\* ------------------------------------------------------------------------

\* the first loop without the branch for a rotor at its own notch
shouldAdvanceNoDoubleStep(rs, index) ==
  IF index = Len(rs) - 1 THEN TRUE
  ELSE IF atNotch(rs[index + 2]) THEN TRUE
  ELSE FALSE

\* the first loop of advanceRotorStates: shouldAdvance[index], decided from
\* the states as they are before any of them advances
shouldAdvance(rs, index) ==
  IF index = Len(rs) - 1 THEN TRUE
  ELSE IF atNotch(rs[index + 2]) THEN TRUE
  ELSE IF index # 0 /\ atNotch(rs[index + 1]) THEN TRUE
  ELSE FALSE

\* the second loop: rs.forEach((rotorState, index) => ...), done holding the
\* states the loop has already visited
RECURSIVE forEachAdvance(_, _, _)
forEachAdvance(rs, flags, done) ==
  IF Len(done) = Len(rs) THEN done
  ELSE LET k == Len(done) + 1
       IN  forEachAdvance(rs, flags,
             Append(done, IF flags[k] THEN RotorStateAdvance(rs[k]) ELSE rs[k]))

\* RotorGroup.advanceRotorStates / RotorGroup.advance
advanceRotorStates(rs) ==
  forEachAdvance(rs, [k \in DOMAIN rs |-> shouldAdvance(rs, k - 1)], <<>>)

\* rotorStates.reduce((acc, val) => val.encode(acc, Reverse), n)
RECURSIVE reduce(_, _)
reduce(rs, acc) ==
  IF rs = <<>> THEN acc
  ELSE reduce(Tail(rs), RotorStateEncode(Head(rs), acc, Reverse))

\* the forward fold run from the first rotor to the last
RECURSIVE reduceRightFromLeft(_, _)
reduceRightFromLeft(rs, acc) ==
  IF rs = <<>> THEN acc
  ELSE reduceRightFromLeft(Tail(rs), RotorStateEncode(Head(rs), acc, Forward))

\* rotorStates.reduceRight((acc, val) => val.encode(acc, Forward), n)
RECURSIVE reduceRight(_, _)
reduceRight(rs, acc) ==
  IF rs = <<>> THEN acc
  ELSE reduceRight(SubSeq(rs, 1, Len(rs) - 1),
                   RotorStateEncode(rs[Len(rs)], acc, Forward))

\* RotorGroup.encode
RotorGroupEncode(rs, n, d) ==
  IF d = Reverse THEN reduce(rs, n) ELSE reduceRight(rs, n)

\* ------------------------------------------------------------------------
\* Enigma
\* ------------------------------------------------------------------------

EnigmaThrown(e) ==
  [err |-> e, plugboard |-> <<>>, rotorStates |-> <<>>, reflector |-> <<>>]

\* values[index] of a JavaScript array, undefined past its end
Undefined == "undefined"

valueAt(values, k) == IF k \in DOMAIN values THEN values[k] ELSE Undefined

\* new Enigma(plugboard, rotorGroup, reflector), the arguments evaluated in
\* order; the first constructor that throws ends the construction
Enigma(pb, rotors, ringSettingValues, positionValues, refl) ==
  LET badRotors == {k \in DOMAIN rotors : rotors[k].err # "none"}
      firstBad == CHOOSE k \in badRotors : \A j \in badRotors : k <= j
  IN  IF pb.err # "none" THEN EnigmaThrown(pb.err)
      ELSE IF badRotors # {} THEN EnigmaThrown(rotors[firstBad].err)
      ELSE IF refl.err # "none" THEN EnigmaThrown(refl.err)
      ELSE [err |-> "none",
            plugboard |-> pb.mapping,
            rotorStates |->
              [k \in DOMAIN rotors |->
                 RotorState(rotors[k], valueAt(ringSettingValues, k),
                            valueAt(positionValues, k))],
            reflector |-> refl.mapping]

\* Enigma.create with the lengths compared after the parts are built
EnigmaCreateChecksLast(rotorLabel, reflectorLabel, plugboardConfig, ringSettings, positions) ==
  LET k == IF Len(rotorLabel) <= Len(ringSettings) /\ Len(rotorLabel) <= Len(positions)
           THEN Len(rotorLabel)
           ELSE IF Len(ringSettings) <= Len(positions) THEN Len(ringSettings)
           ELSE Len(positions)
      built == Enigma(PlugBoard(plugboardConfig),
                      [i \in 1..k |-> RotorCreate(rotorLabel[i])],
                      stringToNumbers(ringSettings),
                      stringToNumbers(positions),
                      ReflectorCreate(reflectorLabel))
  IN  IF built.err # "none" THEN built
      ELSE IF Len(rotorLabel) # Len(ringSettings) \/ Len(ringSettings) # Len(positions)
      THEN EnigmaThrown("lengths")
      ELSE built

\* Enigma.create
EnigmaCreate(rotorLabel, reflectorLabel, plugboardConfig, ringSettings, positions) ==
  IF Len(rotorLabel) # Len(ringSettings) \/ Len(ringSettings) # Len(positions)
  THEN EnigmaThrown("lengths")
  ELSE Enigma(PlugBoard(plugboardConfig),
              [k \in DOMAIN rotorLabel |-> RotorCreate(rotorLabel[k])],
              stringToNumbers(ringSettings),
              stringToNumbers(positions),
              ReflectorCreate(reflectorLabel))

\* the body of Enigma.encode after the stepping pass
pipeline(pb, rs, refl, n) ==
  LET n1 == PlugBoardEncode(pb, n)
      n2 == RotorGroupEncode(rs, n1, Forward)
      n3 == ReflectorEncode(refl, n2)
      n4 == RotorGroupEncode(rs, n3, Reverse)
      n5 == PlugBoardEncode(pb, n4)
  IN  n5

\* Enigma.encode that encodes before it steps
EnigmaEncodeThenAdvance(pb, rs, refl, n) ==
  [rotorStates |-> advanceRotorStates(rs), out |-> pipeline(pb, rs, refl, n)]

\* Enigma.encode: the rotor states after the call and the symbol returned
EnigmaEncode(pb, rs, refl, n) ==
  LET stepped == advanceRotorStates(rs)
  IN  [rotorStates |-> stepped, out |-> pipeline(pb, stepped, refl, n)]

\* nn.map((n) => this.encode(n)): the symbols are encoded left to right, each
\* call starting from the rotor states the call before it left.  The list is
\* split in halves so that the evaluation stays shallow.
RECURSIVE encodeAll(_, _, _, _)
encodeAll(pb, rs, refl, nn) ==
  IF nn = <<>> THEN [rotorStates |-> rs, out |-> <<>>]
  ELSE IF Len(nn) = 1
  THEN LET r == EnigmaEncode(pb, rs, refl, nn[1])
       IN  [rotorStates |-> r.rotorStates, out |-> <<r.out>>]
  ELSE LET h == Len(nn) \div 2
           a == encodeAll(pb, rs, refl, SubSeq(nn, 1, h))
           b == encodeAll(pb, a.rotorStates, refl, SubSeq(nn, h + 1, Len(nn)))
       IN  [out |-> a.out \o b.out, rotorStates |-> b.rotorStates]

\* Enigma.encodeString
encodeString(pb, rs, refl, s) ==
  LET r == encodeAll(pb, rs, refl, stringToNumbers(s))
  IN  [rotorStates |-> r.rotorStates, out |-> numbersToString(r.out)]

\* ------------------------------------------------------------------------
\* Bounds and input families
\* ------------------------------------------------------------------------

\* calls of Enigma.encode / RotorGroup.advance made on one machine
MaxKeys == 6

\* length of the freely chosen texts handed to encodeString
MaxLen == 2

\* letter pairs in the freely chosen plugboard configurations
MaxPairs == 3

RECURSIVE SeqsUpTo(_, _)
SeqsUpTo(S, n) ==
  IF n = 0 THEN {<<>>}
  ELSE LET shorter == SeqsUpTo(S, n - 1)
       IN  shorter \cup {Append(t, x) : t \in {u \in shorter : Len(u) = n - 1}, x \in S}

\* the last k elements of a sequence
Last(s, k) == SubSeq(s, Len(s) - k + 1, Len(s))

Alphabet26 == UpperCaseLetters

ReversedAlphabet ==
  <<"Z","Y","X","W","V","U","T","S","R","Q","P","O","N",
    "M","L","K","J","I","H","G","F","E","D","C","B","A">>

ManualPlugboard == <<"A","M"," ","F","I"," ","N","V"," ","P","S"," ","T","U"," ","W","Z">>

ManualCiphertext ==
  <<"G","C","D","S","E"," ","A","H","U","G","W"," ","T","Q","G","R","K"," ",
    "V","L","F","G","X"," ","U","C","A","L","X"," ","V","Y","M","I","G"," ",
    "M","M","N","M","F"," ","D","X","T","G","N"," ","V","H","V","R","M"," ",
    "M","E","V","O","U"," ","Y","F","Z","S","L"," ","R","H","D","R","R"," ",
    "X","F","J","W","C"," ","F","H","U","H","M"," ","U","N","Z","E","F"," ",
    "R","D","I","S","I"," ","K","B","G","P","M"," ","Y","V","X","U","Z">>

ManualPlaintext ==
  <<"F","E","I","N","D","L","I","Q","E","I","N","F","A","N","T","E","R","I",
    "E","K","O","L","O","N","N","E","B","E","O","B","A","Q","T","E","T","X",
    "A","N","F","A","N","G","S","U","E","D","A","U","S","G","A","N","G","B",
    "A","E","R","W","A","L","D","E","X","E","N","D","E","D","R","E","I","K",
    "M","O","S","T","W","A","E","R","T","S","N","E","U","S","T","A","D","T">>

\* a machine built by Enigma.create
CreateConfig(rotorLabel, reflectorLabel, plugboardConfig, ringSettings, positions) ==
  [how |-> "create", rotorLabel |-> rotorLabel, reflectorLabel |-> reflectorLabel,
   plugboardConfig |-> plugboardConfig, ringSettings |-> ringSettings,
   positions |-> positions]

\* a machine built with the constructors, as the tests build their parts
DirectConfig(rotors, reflectorConfig, plugboardConfig, ringSettingValues, positionValues) ==
  [how |-> "new", rotors |-> rotors, reflectorConfig |-> reflectorConfig,
   plugboardConfig |-> plugboardConfig, ringSettingValues |-> ringSettingValues,
   positionValues |-> positionValues]

WikipediaConfig ==
  CreateConfig(<<"I","II","III">>, "B", <<>>, <<"A","A","A">>, <<"A","A","A">>)

ManualConfig ==
  CreateConfig(<<"II","I","III">>, "A", ManualPlugboard, <<"X","M","V">>, <<"A","B","L">>)

ExampleConfig ==
  CreateConfig(<<"VIII","II","III">>, "B",
               <<"C","T"," ","B","X"," ","Z","W"," ","P","I"," ","V","M"," ","N","O">>,
               <<"A","A","A">>, <<"C","U","X">>)

RotorSelections ==
  { <<>>, <<"III">>, <<"V","II">>, <<"I","II","III">>, <<"VI","VII","VIII">>,
    <<"IV","V","VI","I">> }

PlugboardSelections ==
  { <<>>, <<"d","f"," ","a","c">>, ManualPlugboard, <<"A","B"," ","A","C">> }

RingSelections == { <<"A","A","A","A">>, <<"b","X","M","V">> }

\* start positions one or two keystrokes before a notch of the rotors above
PositionSelections == { <<"A","Y","L","P">>, <<"z","A","D","U">> }

CreateConfigs ==
  {WikipediaConfig, ManualConfig, ExampleConfig}
  \cup { CreateConfig(r, l, p, Last(ring, Len(r)), Last(pos, Len(r))) :
           r \in RotorSelections, l \in ReflectorLabels, p \in PlugboardSelections,
           ring \in RingSelections, pos \in PositionSelections }
  \cup { CreateConfig(<<"I","II","III">>, "B", <<>>, Last(ring, 2), <<"A","A","A">>) :
           ring \in RingSelections }
  \cup { CreateConfig(<<"I","II">>, "B", <<>>, <<"A","A">>, Last(pos, 3)) :
           pos \in PositionSelections }

\* the rotor of the stepping test: identity wiring, notch at B
TestRotor == [config |-> Alphabet26, notchesAt |-> <<"B">>]

TestRotorI == [config |-> 
   <<"E","K","M","F","L","G","D","Q","V","Z","N","T","O",
     "W","Y","H","X","U","S","P","A","I","B","R","C","J">>, notchesAt |-> <<"B","Z">>]

TestPositions == {0, 1, 25}

ReflectorSelections ==
  { ReversedAlphabet,                              \* the tests' reflector
    Alphabet26,                                    \* every position fixed
    Last(Alphabet26, 25) \o <<"A">>,               \* a 26-cycle: not symmetric
    <<"B","A">> \o Last(Alphabet26, 24),           \* symmetric with fixed points
    <<"A","B","C","D">> }                          \* too short

PlugLetters == {"A", "B", "c", "D"}

PlugTokens == {<<x, y>> : x \in PlugLetters, y \in PlugLetters}

RECURSIVE join(_, _)
join(tokens, sep) ==
  IF tokens = <<>> THEN <<>>
  ELSE IF Len(tokens) = 1 THEN tokens[1]
  ELSE tokens[1] \o sep \o join(Tail(tokens), sep)

\* the token lists the plugboard configurations are written from
PlugTokenLists == SeqsUpTo(PlugTokens, MaxPairs)

PlugConfigs ==
  { join(t, <<" ">>) : t \in PlugTokenLists }
  \cup { <<" ">> \o join(t, <<" "," ">>) : t \in SeqsUpTo(PlugTokens, 2) }
  \cup PlugboardSelections

ReflectorBases ==
  { <<"E","J","M","Z","A","L","Y","X","V","B","W","F","C",
      "R","Q","U","O","N","T","S","P","I","K","H","G","D">>,
    <<"Y","R","U","H","Q","S","L","D","P","X","N","G","O",
      "K","M","I","E","B","F","Z","C","W","V","J","A","T">>,
    <<"E","K","M","F","L","G","D","Q","V","Z","N","T","O",
      "W","Y","H","X","U","S","P","A","I","B","R","C","J">>,
    LowerCaseLetters }
  \cup {r \in ReflectorSelections : Len(r) = 26}

ReflectorConfigs ==
  ReflectorBases
  \cup { [b EXCEPT ![i] = c] : b \in ReflectorBases, i \in 1..26, c \in {"A", "y", "M"} }
  \cup { [b EXCEPT ![i] = b[j], ![j] = b[i]] :
           b \in ReflectorBases, i \in {1, 2, 13, 25}, j \in 1..26 }
  \cup { SubSeq(b, 1, 25) : b \in ReflectorBases }
  \cup { <<"A","B","C","D">>, <<>> }

TestConfig(positionValues) ==
  DirectConfig(<<TestRotor, TestRotor, TestRotor>>, ReversedAlphabet, <<>>,
               <<0, 0, 0>>, positionValues)

DirectConfigs ==
  { TestConfig(<<a, b, c>>) : a \in TestPositions, b \in TestPositions, c \in TestPositions }
  \cup { DirectConfig(<<TestRotorI, TestRotor>>, r, p, <<3, 25>>, <<a, 0>>) :
           r \in ReflectorSelections, p \in PlugboardSelections, a \in {0, 25} }

\* one-rotor machines over the reflector wirings and over plugboards of at
\* most one pair and two of three pairs
WiringConfigs ==
  { DirectConfig(<<TestRotor>>, r, <<>>, <<0>>, <<0>>) : r \in ReflectorConfigs }
  \cup { DirectConfig(<<TestRotor>>, ReversedAlphabet, p, <<0>>, <<1>>) :
           p \in { join(t, <<" ">>) : t \in SeqsUpTo(PlugTokens, 1) }
                 \cup { <<"A","B"," ","A","C"," ","B","D">>,
                        <<"A","B"," ","c","D"," ","B","A">> } }

\* the machines whose texts are encoded
Configs == CreateConfigs \cup DirectConfigs

\* the machines driven keystroke by keystroke
KeyConfigs ==
  {WikipediaConfig, ManualConfig, ExampleConfig}
  \cup { CreateConfig(r, "C", <<"d","f"," ","a","c">>, Last(<<"b","X","M","V">>, Len(r)),
                      Last(pos, Len(r))) :
           r \in RotorSelections, pos \in PositionSelections }
  \cup DirectConfigs
  \cup WiringConfigs

InputLetters == {"A", "b", "Z"}

\* the texts of the two end-to-end tests
TestTexts ==
  { <<"A","A","A","A","A">>, <<"a","a","a","a","a">>,
    ManualCiphertext, replaceAllWhitespace(ManualCiphertext) }

\* the texts handed to encodeString on a machine built from c
Inputs(c) ==
  SeqsUpTo(InputLetters, MaxLen)
  \cup (IF c \in {WikipediaConfig, ManualConfig, ExampleConfig} THEN TestTexts ELSE {})

\* ------------------------------------------------------------------------
\* State
\* ------------------------------------------------------------------------

VARIABLES
  config,       \* the arguments the machine was built from
  error,        \* the error the construction threw, "none" when it returned
  plugboard,    \* Enigma.plugboard.mapping
  rotorStates,  \* Enigma.rotorGroup.rotorStates
  reflector,    \* Enigma.reflector.mapping
  op,           \* the last call made: "new", "encode", "advance", ...
  keys,         \* calls of encode / advance made so far
  before,       \* rotorStates as they were when the last call started
  lastIn,       \* argument of the last Enigma.encode call
  lastOut,      \* value returned by the last Enigma.encode call
  plain,        \* argument of the first encodeString call
  cipher,       \* its result
  decoded,      \* result of encodeString(cipher) on the second machine
  fn,           \* the pure operation applied ("none" before the call)
  input,        \* its argument
  output        \* its result

vars ==
  <<config, error, plugboard, rotorStates, reflector, op, keys, before,
    lastIn, lastOut, plain, cipher, decoded, fn, input, output>>

machineVars == <<config, error, plugboard, rotorStates, reflector>>

textVars == <<plain, cipher, decoded>>

pureVars == <<fn, input, output>>

\* the construction a configuration stands for
Build(c) ==
  IF c.how = "create"
  THEN EnigmaCreate(c.rotorLabel, c.reflectorLabel, c.plugboardConfig,
                    c.ringSettings, c.positions)
  ELSE Enigma(PlugBoard(c.plugboardConfig),
              [k \in DOMAIN c.rotors |-> Rotor(c.rotors[k].config, c.rotors[k].notchesAt)],
              c.ringSettingValues, c.positionValues,
              Reflector(c.reflectorConfig))

NoPure == fn = "none" /\ input = <<>> /\ output = <<>>

InitFrom(C) ==
  /\ config \in C
  /\ LET e == Build(config)
     IN  /\ error = e.err
         /\ plugboard = e.plugboard
         /\ rotorStates = e.rotorStates
         /\ reflector = e.reflector
         /\ before = e.rotorStates
  /\ op = "new"
  /\ keys = 0
  /\ lastIn = 0
  /\ lastOut = 0
  /\ plain = <<>>
  /\ cipher = <<>>
  /\ decoded = <<>>
  /\ NoPure

Init == InitFrom(KeyConfigs)

\* Enigma.encode(n)
Encode(n) ==
  /\ error = "none"
  /\ op \in {"new", "encode", "advance"}
  /\ keys < MaxKeys
  /\ LET r == EnigmaEncode(plugboard, rotorStates, reflector, n)
     IN  /\ rotorStates' = r.rotorStates
         /\ lastOut' = r.out
  /\ before' = rotorStates
  /\ lastIn' = n
  /\ op' = "encode"
  /\ keys' = keys + 1
  /\ UNCHANGED <<config, error, plugboard, reflector, textVars, pureVars>>

\* RotorGroup.advance()
Advance ==
  /\ error = "none"
  /\ op \in {"new", "encode", "advance"}
  /\ keys < MaxKeys
  /\ rotorStates' = advanceRotorStates(rotorStates)
  /\ before' = rotorStates
  /\ op' = "advance"
  /\ keys' = keys + 1
  /\ UNCHANGED <<config, error, plugboard, reflector, lastIn, lastOut, textVars, pureVars>>

\* Enigma.encodeString(s): on the first machine with a text of Inputs(config), on the
\* second machine with the result of the first
EncodeString(s) ==
  /\ error = "none"
  /\ op \in {"new", "again"}
  /\ s \in (IF op = "new" THEN Inputs(config) ELSE {cipher})
  /\ LET r == encodeString(plugboard, rotorStates, reflector, s)
     IN  /\ rotorStates' = r.rotorStates
         /\ IF op = "new"
            THEN /\ plain' = s
                 /\ cipher' = r.out
                 /\ decoded' = decoded
                 /\ op' = "encodeString"
            ELSE /\ decoded' = r.out
                 /\ op' = "decoded"
                 /\ UNCHANGED <<plain, cipher>>
  /\ before' = rotorStates
  /\ UNCHANGED <<config, error, plugboard, reflector, keys, lastIn, lastOut, pureVars>>

\* a second, fresh machine built from the same configuration
CreateAgain ==
  /\ error = "none"
  /\ op = "encodeString"
  /\ LET e == Build(config)
     IN  /\ error' = e.err
         /\ plugboard' = e.plugboard
         /\ rotorStates' = e.rotorStates
         /\ reflector' = e.reflector
         /\ before' = e.rotorStates
  /\ op' = "again"
  /\ UNCHANGED <<config, keys, lastIn, lastOut, textVars, pureVars>>

Next ==
  \/ \E n \in 0..25 : Encode(n)
  \/ Advance

Spec == Init /\ [][Next]_vars

\* the machines that encode a text, and then its result on a second machine
InitText == InitFrom(Configs)

NextText ==
  \/ \E s \in Inputs(config) \cup {cipher} : EncodeString(s)
  \/ CreateAgain

SpecText == InitText /\ [][NextText]_vars

\* ------------------------------------------------------------------------
\* Base.validate on its own
\* ------------------------------------------------------------------------

\* the machine is not involved when a pure operation is applied
NoMachine ==
  /\ config = <<>> /\ error = "none" /\ plugboard = <<>> /\ rotorStates = <<>>
  /\ reflector = <<>> /\ op = "new" /\ keys = 0 /\ before = <<>>
  /\ lastIn = 0 /\ lastOut = 0 /\ plain = <<>> /\ cipher = <<>> /\ decoded = <<>>

allButPure ==
  <<config, error, plugboard, rotorStates, reflector, op, keys, before,
    lastIn, lastOut, plain, cipher, decoded>>

BaseMappings ==
  { identityMapping,
    stringToNumbers(ReversedAlphabet),
    ReflectorCreate("B").mapping,
    RotorCreate("I").mapping,
    PlugBoard(<<"D","F"," ","A","C">>).mapping }

\* values that are not symbols, and two that are
ElementValues ==
  { JSNaN, JSInfinity, JSString,
    JSHalf(3), JSHalf(51), JSHalf(53), JSHalf(-1),
    JSNumber(-1), JSNumber(26), JSNumber(40),
    JSNumber(0), JSNumber(5) }

ElementIndexes == {1, 6, 26}

MappingInputs ==
  LET bases == {toJS(m) : m \in BaseMappings}
  IN  bases
      \cup { [m EXCEPT ![i] = v] : m \in bases, i \in ElementIndexes, v \in ElementValues }
      \cup { [m EXCEPT ![i] = m[j], ![j] = m[i]] :
               m \in bases, i \in ElementIndexes, j \in ElementIndexes }
      \cup { SubSeq(m, 1, 25) : m \in bases }
      \cup { Append(m, v) : m \in bases, v \in {JSNumber(26), JSNumber(0)} }
      \cup { <<>> }

ValidateInputs == [m : MappingInputs, vl : {Basic, Symmetric, Reflective}]

InitBase ==
  /\ NoMachine
  /\ fn = "none"
  /\ input \in ValidateInputs
  /\ output = <<>>

\* Base.validate(m, vl)
Validate ==
  /\ fn = "none"
  /\ fn' = "validate"
  /\ output' = validate(input.m, input.vl)
  /\ UNCHANGED <<input, allButPure>>

NextBase == Validate

SpecBase == InitBase /\ [][NextBase]_vars

\* ------------------------------------------------------------------------
\* The PlugBoard and Reflector constructors on their own
\* ------------------------------------------------------------------------

NewInputs ==
  [class : {"PlugBoard"}, config : PlugConfigs]
  \cup [class : {"Reflector"}, config : ReflectorConfigs]

InitNew ==
  /\ NoMachine
  /\ fn = "none"
  /\ input \in NewInputs
  /\ output = <<>>

\* new PlugBoard(config)
NewPlugBoard ==
  /\ fn = "none"
  /\ input.class = "PlugBoard"
  /\ fn' = "PlugBoard"
  /\ output' = PlugBoard(input.config)
  /\ UNCHANGED <<input, allButPure>>

\* new Reflector(config)
NewReflector ==
  /\ fn = "none"
  /\ input.class = "Reflector"
  /\ fn' = "Reflector"
  /\ output' = Reflector(input.config)
  /\ UNCHANGED <<input, allButPure>>

NextNew == NewPlugBoard \/ NewReflector

SpecNew == InitNew /\ [][NextNew]_vars

\* ------------------------------------------------------------------------
\* Enigma.create on its own
\* ------------------------------------------------------------------------

\* rotor selections, one of them with a name Rotor.create does not know
CreateRotorLabels == RotorSelections \cup { <<"I","IX">>, <<"II">> }

\* plugboards, "AB AC" and "AA" being refused by the PlugBoard constructor
CreatePlugboards == PlugboardSelections \cup { <<"A","A">> }

\* reflector names, "D" being unknown to Reflector.create
CreateReflectorLabels == {"B", "D"}

\* the last k letters of a four letter setting, k = 0..4, and one with a
\* blank inside
CreateSettings(S) ==
  { Last(s, k) : s \in S, k \in 0..4 } \cup { <<"A"," ","A">> }

CreateInputs ==
  [rotorLabel : CreateRotorLabels,
   reflectorLabel : CreateReflectorLabels,
   plugboardConfig : CreatePlugboards,
   ringSettings : CreateSettings(RingSelections),
   positions : CreateSettings(PositionSelections)]

InitCreate ==
  /\ NoMachine
  /\ fn = "none"
  /\ input \in CreateInputs
  /\ output = <<>>

\* Enigma.create(rotorLabel, reflectorLabel, plugboardConfig, ringSettings,
\* positions)
Create ==
  /\ fn = "none"
  /\ fn' = "create"
  /\ output' = EnigmaCreate(input.rotorLabel, input.reflectorLabel,
                            input.plugboardConfig, input.ringSettings,
                            input.positions)
  /\ UNCHANGED <<input, allButPure>>

NextCreate == Create

SpecCreate == InitCreate /\ [][NextCreate]_vars

\* ------------------------------------------------------------------------
\* Rotor, RotorState and RotorGroup on their own
\* ------------------------------------------------------------------------

\* the arguments Rotor.create passes to the constructor for a label
RotorArgs(label) ==
  [config |-> numbersToString(RotorCreate(label).mapping),
   notchesAt |-> numbersToString(RotorCreate(label).notchesAt)]

\* the rotor of the test rotor/encode
TestRotorBCA ==
  [config |-> <<"B","C","A">> \o Last(Alphabet26, 23), notchesAt |-> <<>>]

TestRotorReversed == [config |-> ReversedAlphabet, notchesAt |-> <<"A">>]

RotorBases == {TestRotor, TestRotorBCA, TestRotorReversed}

\* wirings the constructor accepts: the eight named ones, the tests' ones,
\* those with two contacts exchanged and one in lower case
GoodWirings ==
  { RotorArgs(l) : l \in RotorLabels }
  \cup RotorBases
  \cup { [b EXCEPT !.config = [b.config EXCEPT ![i] = b.config[j], ![j] = b.config[i]]] :
           b \in RotorBases \cup {TestRotorI}, i \in {1, 13}, j \in {2, 26} }
  \cup { [TestRotorI EXCEPT !.config = [k \in 1..26 |->
            LowerCaseLetters[IndexIn(UpperCaseLetters, TestRotorI.config[k])]]] }

\* wirings the constructor refuses
BadWirings ==
  { [TestRotorI EXCEPT !.config[3] = "E"],
    [TestRotorI EXCEPT !.config = SubSeq(TestRotorI.config, 1, 25)],
    [TestRotor EXCEPT !.config = Alphabet26 \o <<"A">>],
    [TestRotor EXCEPT !.config = <<>>] }

RotorWirings == GoodWirings \cup BadWirings

\* ring settings and positions of the rotors of a group
GroupValues == {0, 5, 25}

GroupSelections ==
  { <<>>,
    <<RotorArgs("I"), RotorArgs("II")>>,
    <<TestRotorI, TestRotorI>>,
    <<RotorArgs("VI"), TestRotorBCA, RotorArgs("III")>>,
    <<RotorArgs("II"), TestRotorI, [TestRotorI EXCEPT !.config[3] = "E"]>> }

\* one rotor at every ring setting and position, and groups of rotors
GroupInputs ==
  { [rotors |-> <<w>>, ringSettingValues |-> <<r>>, positionValues |-> <<p>>] :
      w \in RotorWirings, r \in 0..25, p \in 0..25 }
  \cup UNION { [rotors : {g},
                ringSettingValues : [DOMAIN g -> GroupValues],
                positionValues : [DOMAIN g -> GroupValues]] : g \in GroupSelections }

InitGroup ==
  /\ NoMachine
  /\ fn = "none"
  /\ input \in GroupInputs
  /\ output = <<>>

GroupThrown(e) == [err |-> e, rotorStates |-> <<>>]

\* new RotorGroup(rotors.map((rotor, index) =>
\*   new RotorState(new Rotor(...), ringSettingValues[index], positionValues[index])))
RotorGroup(rotors, ringSettingValues, positionValues) ==
  LET built == [k \in DOMAIN rotors |-> Rotor(rotors[k].config, rotors[k].notchesAt)]
      bad == {k \in DOMAIN built : built[k].err # "none"}
      firstBad == CHOOSE k \in bad : \A j \in bad : k <= j
  IN  IF bad # {} THEN GroupThrown(built[firstBad].err)
      ELSE [err |-> "none",
            rotorStates |->
              [k \in DOMAIN rotors |->
                 RotorState(built[k], ringSettingValues[k], positionValues[k])]]

NewRotorGroup ==
  /\ fn = "none"
  /\ fn' = "RotorGroup"
  /\ output' = RotorGroup(input.rotors, input.ringSettingValues, input.positionValues)
  /\ UNCHANGED <<input, allButPure>>

\* every symbol through each RotorState.encode and through RotorGroup.encode,
\* in both directions, the positions being left as they are
GroupEncode ==
  /\ fn = "RotorGroup"
  /\ output.err = "none"
  /\ fn' = "encode"
  /\ LET rs == output.rotorStates
     IN  output' =
           [err |-> "none",
            rotorStates |-> rs,
            forward |-> [k \in DOMAIN rs |->
                           [i \in 1..26 |-> RotorStateEncode(rs[k], i - 1, Forward)]],
            reverse |-> [k \in DOMAIN rs |->
                           [i \in 1..26 |-> RotorStateEncode(rs[k], i - 1, Reverse)]],
            groupForward |-> [i \in 1..26 |-> RotorGroupEncode(rs, i - 1, Forward)],
            groupReverse |-> [i \in 1..26 |-> RotorGroupEncode(rs, i - 1, Reverse)]]
  /\ UNCHANGED <<input, allButPure>>

NextGroup == NewRotorGroup \/ GroupEncode

SpecGroup == InitGroup /\ [][NextGroup]_vars

\* ------------------------------------------------------------------------
\* Properties
\* ------------------------------------------------------------------------

TypeOK ==
  /\ error = "none" =>
       /\ Len(plugboard) = 26
       /\ Len(reflector) = 26
       /\ \A k \in DOMAIN rotorStates : rotorStates[k].position \in 0..25
  /\ keys \in 0..MaxKeys


\* the symbol of a letter, in either case
Symbol(c) == IndexIn(UpperCaseLetters, upperChar(c)) - 1

IsLetter(c) == IsUpper(c) \/ IsLower(c)

LettersOnly(s) == \A i \in DOMAIN s : IsLetter(s[i])

positionsOf(rs) == [k \in DOMAIN rs |-> rs[k].position]

\* a mapping of the machine is an involution / has no fixed point
IsInvolution(m) == \A i \in 0..25 : m[m[i + 1] + 1] = i

NoFixedPoint(m) == \A i \in 0..25 : m[i + 1] # i

\* C1: a text of letters encoded on a fresh machine, and the result encoded on
\* a second fresh machine of the same configuration, gives the text back
\* letter for letter (encodeString writes its result in upper case).
C1_Reciprocity ==
  (op = "decoded" /\ LettersOnly(plain)) =>
     /\ Len(decoded) = Len(plain)
     /\ \A i \in DOMAIN plain : Symbol(decoded[i]) = Symbol(plain[i])
     /\ (\A i \in DOMAIN plain : IsUpper(plain[i])) => decoded = plain

C1_Witness ==
  /\ op = "decoded"
  /\ config = ExampleConfig
  /\ plain = <<"b", "Z">>
  /\ cipher # toUpperCase(plain)
  /\ decoded = <<"B", "Z">>


\* ---- stepping ----------------------------------------------------------

\* rotor i (0-based) stood at one of its notches when the last call started
WasAtNotch(i) ==
  before[i + 1].position \in
    {before[i + 1].rotor.notchesAt[k] : k \in DOMAIN before[i + 1].rotor.notchesAt}

\* the rotors the stepping rule names, from the positions held before the pass
MustStep(i) ==
  LET n == Len(before)
  IN  \/ i = n - 1
      \/ i < n - 1 /\ WasAtNotch(i + 1)
      \/ 0 < i /\ i < n - 1 /\ WasAtNotch(i)

\* exactly the named rotors moved, each by one step
OnePass ==
  /\ Len(rotorStates) = Len(before)
  /\ \A i \in 0..(Len(before) - 1) :
       rotorStates[i + 1].position =
         IF MustStep(i) THEN (before[i + 1].position + 1) % 26
         ELSE before[i + 1].position

SteppingTestPositions ==
  << <<0, 0, 1>>, <<0, 1, 2>>, <<1, 2, 3>>, <<1, 2, 4>>, <<1, 2, 5>>, <<1, 2, 6>> >>

\* C2: one stepping pass moves exactly the rotors the rule names, each by one
\* step, decided from the positions before the pass: the last rotor always, a
\* rotor whose right neighbour stood at a notch, and a middle rotor that stood
\* at its own notch; with two or more rotors the leftmost moves exactly when
\* its neighbour stood at a notch; the three rotors of the stepping test go
\* from [0,0,0] through [0,0,1], [0,1,2], [1,2,3], [1,2,4], [1,2,5], [1,2,6].
C2_SteppingRule ==
  /\ (error = "none" /\ op \in {"encode", "advance"}) =>
       /\ OnePass
       /\ Len(before) >= 2 =>
            (rotorStates[1].position # before[1].position <=> WasAtNotch(1))
  /\ (config = TestConfig(<<0, 0, 0>>) /\ keys \in 1..6) =>
       positionsOf(rotorStates) = SteppingTestPositions[keys]

\* a middle rotor leaves its notch and still takes its left neighbour along,
\* at the third pass of the stepping test
C2_Witness ==
  /\ config = TestConfig(<<0, 0, 0>>)
  /\ op = "advance"
  /\ keys = 3
  /\ positionsOf(before) = <<0, 1, 2>>
  /\ positionsOf(rotorStates) = <<1, 2, 3>>
  /\ WasAtNotch(1)

\* ---- the keystroke ------------------------------------------------------

\* RotorState.encode(_, Forward) applied from index i (1-based) down to the
\* first rotor
RECURSIVE ForwardFrom(_, _, _)
ForwardFrom(rs, i, n) ==
  IF i < 1 THEN n ELSE ForwardFrom(rs, i - 1, RotorStateEncode(rs[i], n, Forward))

\* RotorState.encode(_, Reverse) applied from index i (1-based) up to the last
\* rotor
RECURSIVE ReverseFrom(_, _, _)
ReverseFrom(rs, i, n) ==
  IF i > Len(rs) THEN n ELSE ReverseFrom(rs, i + 1, RotorStateEncode(rs[i], n, Reverse))

\* C3: Enigma.encode(n) steps the rotors first and returns
\* plugboard(rotorsReverse(reflector(rotorsForward(plugboard(n))))) computed
\* with the positions held after the pass, the forward chain running from the
\* last rotor to the first and the reverse chain from the first to the last.
C3_EncodePipeline ==
  (error = "none" /\ op = "encode") =>
     /\ OnePass
     /\ lastOut =
          plugboard[
            ReverseFrom(rotorStates, 1,
              reflector[
                ForwardFrom(rotorStates, Len(rotorStates), plugboard[lastIn + 1]) + 1]) + 1]

C3_Witness ==
  /\ op = "encode"
  /\ config = ManualConfig
  /\ keys = 2
  /\ lastIn = 6
  /\ lastOut # lastIn
  /\ positionsOf(rotorStates) # positionsOf(before)


\* ---- known answers ------------------------------------------------------

\* C4: rotors I, II, III, reflector B, no plugboard, ring settings AAA and
\* start positions AAA encode AAAAA, in either letter case, to BDZGO.
C4_KnownAnswerWikipedia ==
  (config = WikipediaConfig /\ op = "encodeString"
     /\ plain \in {<<"A","A","A","A","A">>, <<"a","a","a","a","a">>}) =>
     cipher = <<"B","D","Z","G","O">>

C4_Witness ==
  /\ config = WikipediaConfig
  /\ op = "encodeString"
  /\ plain = <<"a","a","a","a","a">>
  /\ cipher = <<"B","D","Z","G","O">>

\* C5: rotors II, I, III, reflector A, plugboard AM FI NV PS TU WZ, ring
\* settings XMV and start positions ABL encode the ciphertext of the 1930
\* manual, written with or without the spaces between its groups, to its
\* plaintext.
C5_KnownAnswerManual ==
  (config = ManualConfig /\ op = "encodeString"
     /\ replaceAllWhitespace(plain) = replaceAllWhitespace(ManualCiphertext)) =>
     cipher = ManualPlaintext

C5_Witness ==
  /\ config = ManualConfig
  /\ op = "encodeString"
  /\ plain = ManualCiphertext
  /\ Len(cipher) = 90
  /\ cipher = ManualPlaintext

\* ---- the fixed mappings -------------------------------------------------

\* C7: the mapping of every Reflector that was constructed is an involution
\* without fixed point, the mapping of every PlugBoard that was constructed
\* is an involution, and no encode or advance call changes either.
C7_FixedMappings ==
  /\ [](error = "none" =>
          /\ IsInvolution(reflector)
          /\ NoFixedPoint(reflector)
          /\ IsInvolution(plugboard))
  /\ [][plugboard' = plugboard /\ reflector' = reflector]_vars

\* a machine built from the tests' reflector and a plugboard with pairs, after
\* encode and advance calls
C7_Witness ==
  /\ error = "none"
  /\ config.how = "new"
  /\ config.reflectorConfig = ReversedAlphabet
  /\ plugboard # identityMapping
  /\ op = "advance"
  /\ keys = 3
  /\ lastOut # lastIn


\* ---- the validator ------------------------------------------------------

IsSymbolValue(v) == v.kind = "number" /\ v.n2 % 2 = 0 /\ (v.n2 \div 2) \in 0..25

\* m is a permutation of 0..25
IsPermutation(m) ==
  /\ Len(m) = 26
  /\ \A i \in DOMAIN m : IsSymbolValue(m[i])
  /\ \A i, j \in DOMAIN m : m[i] = m[j] => i = j

\* C6: at each of the three levels Base.validate throws for every mapping
\* that is not a permutation of 0..25 (wrong length, a non-finite,
\* non-integral or out-of-range element, a repeated value), and at level
\* Basic it returns for every permutation of 0..25.
C6_PermutationClosure ==
  fn = "validate" =>
    /\ ~IsPermutation(input.m) => output # "none"
    /\ (IsPermutation(input.m) /\ input.vl = Basic) => output = "none"

\* ---- the plugboard ------------------------------------------------------

\* the maximal runs of non-whitespace characters of s
RECURSIVE TokensOf(_, _, _)
TokensOf(s, cur, acc) ==
  IF s = <<>> THEN (IF cur = <<>> THEN acc ELSE Append(acc, cur))
  ELSE IF IsWhitespace(Head(s))
       THEN TokensOf(Tail(s), <<>>, IF cur = <<>> THEN acc ELSE Append(acc, cur))
       ELSE TokensOf(Tail(s), Append(cur, Head(s)), acc)

Tokens(s) == TokensOf(s, <<>>, <<>>)

SymbolsOf(token) == {Symbol(token[i]) : i \in DOMAIN token}

\* two-letter tokens, no letter in more than one of them
DisjointPairs(s) ==
  LET t == Tokens(s)
  IN  /\ \A k \in DOMAIN t : Len(t[k]) = 2 /\ LettersOnly(t[k])
      /\ \A k, l \in DOMAIN t : k # l => SymbolsOf(t[k]) \cap SymbolsOf(t[l]) = {}

\* a letter occurs in two different pairs
LetterInTwoPairs(s) ==
  LET t == Tokens(s)
  IN  /\ \A k \in DOMAIN t : Len(t[k]) = 2 /\ LettersOnly(t[k])
      /\ \E k, l \in DOMAIN t :
           /\ SymbolsOf(t[k]) # SymbolsOf(t[l])
           /\ SymbolsOf(t[k]) \cap SymbolsOf(t[l]) # {}

\* C8: a configuration of whitespace-separated two-letter tokens with no
\* letter in more than one token gives a PlugBoard that maps x to y and y to x
\* for every token xy and every other symbol to itself; the empty
\* configuration gives the identity.
C8_PlugBoardWiring ==
  (fn = "PlugBoard" /\ DisjointPairs(input.config)) =>
     LET t == Tokens(input.config)
         used == UNION {SymbolsOf(t[k]) : k \in DOMAIN t}
     IN  /\ output.err = "none"
         /\ \A k \in DOMAIN t :
              /\ PlugBoardEncode(output.mapping, Symbol(t[k][1])) = Symbol(t[k][2])
              /\ PlugBoardEncode(output.mapping, Symbol(t[k][2])) = Symbol(t[k][1])
         /\ \A n \in (0..25) \ used : PlugBoardEncode(output.mapping, n) = n
         /\ t = <<>> => output.mapping = identityMapping

C8_Witness ==
  /\ fn = "PlugBoard"
  /\ input.config = <<"D","B"," ","A","c">>
  /\ output.err = "none"
  /\ output.mapping[1] = 2
  /\ output.mapping[2] = 3
  /\ output.mapping[5] = 4

\* C9: constructing a PlugBoard from a configuration in which a letter occurs
\* in two different pairs throws the validator's symmetry error.
C9_PlugBoardLetterTwice ==
  (fn = "PlugBoard" /\ LetterInTwoPairs(input.config)) => output.err = "symmetric"

\* ---- the reflector ------------------------------------------------------

\* a wiring string of 26 letters, read as the mapping position -> letter
IsWiring(s) == Len(s) = 26 /\ LettersOnly(s)

HasFixedPoint(s) == \E i \in DOMAIN s : Symbol(s[i]) = i - 1

WiringIsPermutation(s) == \A i, j \in DOMAIN s : Symbol(s[i]) = Symbol(s[j]) => i = j

WiringIsSymmetric(s) == \A i \in DOMAIN s : Symbol(s[Symbol(s[i]) + 1]) = i - 1

\* C10 as stated: every 26-letter wiring with a fixed point is refused with
\* the fixed-point error.
C10_FixedPointErrorAlways ==
  (fn = "Reflector" /\ IsWiring(input.config) /\ HasFixedPoint(input.config)) =>
     output.err = "reflective"

\* C10: constructing a Reflector from a 26-letter wiring with a fixed point
\* always throws; the error is the fixed-point error exactly when the wiring
\* is a symmetric permutation, the uniqueness error when it is no permutation
\* and the symmetry error when it is a permutation that is not symmetric.
C10_FixedPointRefused ==
  (fn = "Reflector" /\ IsWiring(input.config) /\ HasFixedPoint(input.config)) =>
     /\ output.err # "none"
     /\ output.mapping = <<>>
     /\ output.err =
          IF ~WiringIsPermutation(input.config) THEN "unique"
          ELSE IF ~WiringIsSymmetric(input.config) THEN "symmetric"
          ELSE "reflective"

C10_Witness ==
  /\ fn = "Reflector"
  /\ input.config = Alphabet26
  /\ output.err = "reflective"

\* ---- Enigma.create ------------------------------------------------------

\* the three lengths Enigma.create compares, as the caller passed them
LengthsMatch(i) ==
  Cardinality({Len(i.rotorLabel), Len(i.ringSettings), Len(i.positions)}) = 1

\* C11: Enigma.create throws the lengths error exactly when the number of
\* rotor names, the length of the ring settings and the length of the
\* positions are not all equal; it throws it whatever the plugboard, the
\* rotor names and the reflector name are, so before any of the parts is
\* built, and then no machine is returned
C11_LengthsCheckedFirst ==
  fn = "create" =>
    /\ (output.err = "lengths") <=> ~LengthsMatch(input)
    /\ ~LengthsMatch(input) => output = EnigmaThrown("lengths")

\* a create with unequal lengths whose plugboard, rotor name and reflector
\* name would each be refused, answered by the lengths error
C11_Witness ==
  /\ fn = "create"
  /\ ~LengthsMatch(input)
  /\ PlugBoard(input.plugboardConfig).err # "none"
  /\ input.rotorLabel = <<"I","IX">>
  /\ input.reflectorLabel = "D"
  /\ output.err = "lengths"


\* ---- the rotor round trip -----------------------------------------------

\* t is a table of 26 symbols and u undoes it
Undoes(u, t) ==
  /\ Len(t) = 26 /\ Len(u) = 26
  /\ \A n \in 0..25 : t[n + 1] \in 0..25 /\ u[t[n + 1] + 1] = n

\* C12: for every rotor the constructor accepts, at every ring setting and
\* position, RotorState.encode in Reverse undoes RotorState.encode in Forward
\* and the other way round; so RotorGroup.encode in Reverse undoes
\* RotorGroup.encode in Forward, and the other way round, at fixed positions
C12_RotorRoundTrip ==
  fn = "encode" =>
    /\ \A k \in DOMAIN output.rotorStates :
         /\ Undoes(output.reverse[k], output.forward[k])
         /\ Undoes(output.forward[k], output.reverse[k])
    /\ Undoes(output.groupReverse, output.groupForward)
    /\ Undoes(output.groupForward, output.groupReverse)

\* three rotors off their zero ring settings and positions, the group moving
\* the symbol A and bringing it back
C12_Witness ==
  /\ fn = "encode"
  /\ Len(output.rotorStates) = 3
  /\ \A k \in 1..3 : /\ output.rotorStates[k].ringSetting = 5
                     /\ output.rotorStates[k].position = 25
  /\ output.forward[1][1] # 0
  /\ output.groupForward[1] # 0
  /\ output.groupReverse[output.groupForward[1] + 1] = 0


\* ---- the frame of a keystroke --------------------------------------------

\* C13: an Enigma.encode call runs one stepping pass and changes nothing
\* else: the last rotor moves one step, every rotor position is the old one
\* or the old one plus 1 modulo 26 and stays in 0..25; the ring settings, the
\* rotors with their wirings and notches (a rotor used by several rotor
\* states included), the order of the rotors, the plugboard and the reflector
\* are as before, the encode steps of the parts having changed nothing
C13_KeystrokeFrame ==
  [][op' = "encode" =>
       /\ Len(rotorStates') = Len(rotorStates)
       /\ \A k \in DOMAIN rotorStates :
            /\ rotorStates'[k].position \in 0..25
            /\ rotorStates'[k].position \in
                 {rotorStates[k].position, (rotorStates[k].position + 1) % 26}
            /\ k = Len(rotorStates) =>
                 rotorStates'[k].position = (rotorStates[k].position + 1) % 26
            /\ rotorStates'[k].ringSetting = rotorStates[k].ringSetting
            /\ rotorStates'[k].rotor = rotorStates[k].rotor
       /\ plugboard' = plugboard
       /\ reflector' = reflector
       /\ error' = error /\ config' = config]_vars

\* three rotor states on one rotor, the middle one at the notch and the last
\* one at Z: all three move, the last one wrapping to A
C13_Witness ==
  /\ op = "encode"
  /\ config = TestConfig(<<0, 1, 25>>)
  /\ keys = 1
  /\ positionsOf(before) = <<0, 1, 25>>
  /\ positionsOf(rotorStates) = <<1, 2, 0>>
  /\ \A k \in 1..3 : rotorStates[k].rotor = before[1].rotor

\* ---- no letter encodes to itself ------------------------------------------

\* C14: in every state a machine reaches by encode calls, Enigma.encode(n)
\* is a symbol in 0..25 and is not n, for every n in 0..25, whatever the
\* number of rotors, the plugboard, the ring settings and the positions
C14_NoSelfEncoding ==
  error = "none" =>
    /\ \A n \in 0..25 :
         LET out == EnigmaEncode(plugboard, rotorStates, reflector, n).out
         IN  out \in 0..25 /\ out # n
    /\ op = "encode" => (lastOut \in 0..25 /\ lastOut # lastIn)

\* a machine of four rotors with a plugboard, built by Enigma.create, after
\* five keystrokes
C14_Witness ==
  /\ error = "none"
  /\ config.how = "create"
  /\ Len(rotorStates) = 4
  /\ plugboard # identityMapping
  /\ op = "encode"
  /\ keys = 5
  /\ lastOut # lastIn


====
